---- MODULE Spec2Model ----
(***************************************************************************)
(* A state-machine model of the benchmark code of go-study:                *)
(*   cmd/gostudy/run_benchmarks.go  sumBar, sumFoo, SimpleBenchmark,       *)
(*                                  count, countFast, CountBenchmark       *)
(*   cmd/gostudy/main_bench_test.go BenchmarkSumFoo*, BenchmarkSumBar*     *)
(* and of the program entry point and the concurrency examples:            *)
(*   cmd/gostudy/main.go            main                                   *)
(*   the examples file              mistake62 .. avoid68, merge, watcher   *)
(* Go slices are 0-based; the sequences below are 1-based, so the Go       *)
(* element s[k] is the TLA+ element s[k + 1].                              *)
(***************************************************************************)
EXTENDS Integers, Sequences, FiniteSets, TLC

\* Largest dataset size explored (the code uses 100 .. 200000).
MaxSize == 3
\* Largest iteration count explored (the code uses 10000, 50000 and b.N).
MaxIter == 2
\* Largest measured duration explored, in clock ticks.
MaxDur == 2
\* Largest base address explored for a placed struct, in 8-byte words.
MaxBaseWords == 49
\* Ages passed to UpdateAge range over (0 - MaxAge)..MaxAge.
MaxAge == 1
\* Most calls a caller makes on one customer.
MaxCalls == 2
\* Largest result value on which a verification block is evaluated.
MaxResult == 2

VARIABLES
    driver,         \* which driver runs: the function on top of the stack
    size,           \* const size of the driver
    iterations,     \* const iterations of the driver (b.N for a testing.B benchmark)
    pc,             \* position of the driver
    i,              \* loop variable i of the driver
    fooSlice,       \* []Foo of SimpleBenchmark / BenchmarkSumFoo
    bar,            \* Bar of SimpleBenchmark / BenchmarkSumBar
    inputs,         \* []Input of CountBenchmark
    resultFoo,      \* SimpleBenchmark: var resultFoo int64
    resultBar,      \* SimpleBenchmark: var resultBar int64
    r,              \* CountBenchmark: var r Result
    fr,             \* CountBenchmark: var fr FastResult
    durationFoo,    \* SimpleBenchmark: durationFoo
    durationBar,    \* SimpleBenchmark: durationBar
    durationResult, \* CountBenchmark: durationResult
    durationFast,   \* CountBenchmark: durationFast
    out,            \* what the driver has printed, as a sequence of tagged lines
    callee,         \* the function being called by the driver, "none" between calls
    cpc,            \* position of the calling goroutine inside the callee
    sum,            \* sumFoo / sumBar: var sum int64
    j,              \* sumFoo / sumBar: loop variable i of the callee
    wg,             \* count / countFast: the WaitGroup counter
    result,         \* count / countFast: the shared result record
    wpc,            \* count / countFast: position of each worker goroutine
    wi,             \* count / countFast: loop variable i of each worker
    wtmp,           \* count / countFast: value a worker has loaded for its +=
    acc,            \* memory accesses of the current count / countFast invocation
    synced,         \* workers whose wg.Done the caller's wg.Wait has observed
    calls,          \* number of completed calls of the callee bound to the result variable
    panicked,       \* a goroutine panicked: the process is gone
    example,        \* which example program runs, "none" while a benchmark driver runs
    mainSt,         \* main and mistake63: the goroutines and the standard output
    layout,         \* a Result / FastResult value placed in memory
    sel,            \* mistake64 / avoid64: producer, consumer and their two channels
    cust,           \* Customer / CustomerSafe: the value, its RWMutex and the call stack
    mrg,            \* avoid66 and merge: the senders, the merge goroutine, the consumer
    wat,            \* mistake62 / avoid62: the watcher, its goroutine and its caller
    app             \* avoid69: the slice, its mutex, the two appenders and their caller

vars == << driver, size, iterations, pc, i, fooSlice, bar, inputs, resultFoo,
           resultBar, r, fr, durationFoo, durationBar, durationResult, durationFast,
           out, callee, cpc, sum, j, wg, result, wpc, wi, wtmp, acc, synced, calls,
           panicked, example, mainSt, layout, sel, cust, mrg, wat, app >>

driverVars == << driver, size, iterations >>
dataVars == << fooSlice, bar, inputs >>
resultVars == << resultFoo, resultBar, r, fr >>
countTimeVars == << durationResult, durationFast >>
timeVars == << durationFoo, durationBar, countTimeVars >>
sumVars == << sum, j >>
countVars == << wg, result, wpc, wi, wtmp, acc, synced >>
exVars == << example, mainSt, layout, sel, cust, mrg, wat, app >>

Drivers == {"SimpleBenchmark", "CountBenchmark", "BenchmarkSumFoo", "BenchmarkSumBar"}
Workers == {"A", "B"}

\* type Foo struct / type Input struct: two int64 fields, zero value {0, 0}.
Foo(a, b) == [a |-> a, b |-> b]
\* type Result struct: the zero value Result{}.
Result == [sumA |-> 0, sumB |-> 0]
\* type FastResult struct: the zero value FastResult{}, 56 padding bytes between the sums.
FastResult == [sumA |-> 0, pad |-> [k \in 1..56 |-> 0], sumB |-> 0]
\* make([]T, n): n zero values.
MakeFoo(n) == [k \in 1..n |-> Foo(0, 0)]
MakeInt64(n) == [k \in 1..n |-> 0]
\* type Bar struct: the zero value has two nil slices.
Bar == [a |-> << >>, b |-> << >>]

\* The state of an example program that is not running.
Idle == [pc |-> "idle"]

\* No example program runs.
ExamplesIdle ==
    /\ example = "none"
    /\ mainSt = Idle
    /\ layout = Idle
    /\ sel = Idle
    /\ cust = Idle
    /\ mrg = Idle
    /\ wat = Idle
    /\ app = Idle

Init ==
    /\ ExamplesIdle
    /\ driver \in Drivers
    /\ size \in 0..MaxSize
    /\ iterations \in 1..MaxIter
    /\ pc = "start"
    /\ i = 0
    /\ fooSlice = << >>
    /\ bar = Bar
    /\ inputs = << >>
    /\ resultFoo = 0
    /\ resultBar = 0
    /\ r = Result
    /\ fr = FastResult
    /\ durationFoo = 0
    /\ durationBar = 0
    /\ durationResult = 0
    /\ durationFast = 0
    /\ out = << >>
    /\ callee = "none"
    /\ cpc = "none"
    /\ sum = 0
    /\ j = 0
    /\ wg = 0
    /\ result = Result
    /\ wpc = [w \in Workers |-> "unstarted"]
    /\ wi = [w \in Workers |-> 0]
    /\ wtmp = [w \in Workers |-> 0]
    /\ acc = {}
    /\ synced = {}
    /\ calls = 0
    /\ panicked = FALSE

----------------------------------------------------------------------------
(* Dataset setup *)

\* A faulty generator: field b is int64(i + 2).
datasetBPlus(k) == k + 2

\* The generated record of index k: field a is int64(i), field b is int64(i * 2).
datasetA(k) == k
datasetB(k) == k * 2

\* fooSlice := make([]Foo, size); i := 0
SetupFooMake ==
    /\ ~panicked
    /\ pc = "start"
    /\ driver \in {"SimpleBenchmark", "BenchmarkSumFoo"}
    /\ fooSlice' = MakeFoo(size)
    /\ i' = 0
    /\ pc' = "setupFoo"
    /\ UNCHANGED << exVars, driverVars, bar, inputs, resultVars, timeVars, out, callee, cpc,
                    sumVars, countVars, calls, panicked >>

\* for i < size { fooSlice[i] = Foo{a: int64(i), b: int64(i * 2)}; i++ }
SetupFooStep ==
    /\ ~panicked
    /\ pc = "setupFoo"
    /\ i < size
    /\ fooSlice' = [fooSlice EXCEPT ![i + 1] = Foo(datasetA(i), datasetB(i))]
    /\ i' = i + 1
    /\ UNCHANGED << exVars, driverVars, pc, bar, inputs, resultVars, timeVars, out, callee,
                    cpc, sumVars, countVars, calls, panicked >>

\* bar := Bar{a: make([]int64, size), b: make([]int64, size)}; i := 0
\* In SimpleBenchmark this follows the end of the fooSlice loop.
SetupBarMake ==
    /\ ~panicked
    /\ \/ pc = "start" /\ driver = "BenchmarkSumBar"
       \/ pc = "setupFoo" /\ ~(i < size) /\ driver = "SimpleBenchmark"
    /\ bar' = [a |-> MakeInt64(size), b |-> MakeInt64(size)]
    /\ i' = 0
    /\ pc' = "setupBar"
    /\ UNCHANGED << exVars, driverVars, fooSlice, inputs, resultVars, timeVars, out, callee,
                    cpc, sumVars, countVars, calls, panicked >>

\* for i < size { bar.a[i] = int64(i); bar.b[i] = int64(i * 2); i++ }
SetupBarStep ==
    /\ ~panicked
    /\ pc = "setupBar"
    /\ i < size
    /\ bar' = [a |-> [bar.a EXCEPT ![i + 1] = datasetA(i)],
               b |-> [bar.b EXCEPT ![i + 1] = datasetB(i)]]
    /\ i' = i + 1
    /\ UNCHANGED << exVars, driverVars, pc, fooSlice, inputs, resultVars, timeVars, out,
                    callee, cpc, sumVars, countVars, calls, panicked >>

\* inputs := make([]Input, size); i := 0
SetupInputsMake ==
    /\ ~panicked
    /\ pc = "start"
    /\ driver = "CountBenchmark"
    /\ inputs' = MakeFoo(size)
    /\ i' = 0
    /\ pc' = "setupInputs"
    /\ UNCHANGED << exVars, driverVars, fooSlice, bar, resultVars, timeVars, out, callee, cpc,
                    sumVars, countVars, calls, panicked >>

\* for i < size { inputs[i] = Input{a: int64(i), b: int64(i * 2)}; i++ }
SetupInputsStep ==
    /\ ~panicked
    /\ pc = "setupInputs"
    /\ i < size
    /\ inputs' = [inputs EXCEPT ![i + 1] = Foo(datasetA(i), datasetB(i))]
    /\ i' = i + 1
    /\ UNCHANGED << exVars, driverVars, pc, fooSlice, bar, resultVars, timeVars, out, callee,
                    cpc, sumVars, countVars, calls, panicked >>

----------------------------------------------------------------------------
(* sumFoo and sumBar, and the drivers that call them *)

\* Go's checked index expression s[k]: k is in range when 0 <= k < len(s).
InRange(s, k) == k >= 0 /\ k < Len(s)

\* sumFoo: the loop condition i < len(foo)
sumFooCond(foo, k) == k < Len(foo)
\* sumFoo: sum += foo[i].a
sumFooAdd(s, foo, k) == s + foo[k + 1].a
\* sumBar: the loop condition i < len(bar.a)
sumBarCond(b, k) == k < Len(b.a)
\* A faulty sumBar: sum += bar.b[i]
sumBarAddB(s, b, k) == s + b.b[k + 1]
\* sumBar: sum += bar.a[i]
sumBarAdd(s, b, k) == s + b.a[k + 1]

\* SimpleBenchmark: the three header lines, start := time.Now(), var resultFoo, i := 0
\* BenchmarkSumFoo: b.ResetTimer(), i := 0
BenchFooBegin ==
    /\ ~panicked
    /\ \/ /\ driver = "SimpleBenchmark"
          /\ pc = "setupBar"
          /\ out' = Append(out, [tag |-> "header", size |-> size, iterations |-> iterations])
       \/ /\ driver = "BenchmarkSumFoo"
          /\ pc = "setupFoo"
          /\ out' = out
    /\ ~(i < size)
    /\ i' = 0
    /\ calls' = 0
    /\ pc' = "benchFoo"
    /\ UNCHANGED << exVars, driverVars, dataVars, resultVars, timeVars, callee, cpc, sumVars,
                    countVars, panicked >>

\* The call sumFoo(fooSlice) and the callee's var sum int64; i := 0
sumFooEnter ==
    /\ ~panicked
    /\ pc = "benchFoo"
    /\ callee = "none"
    /\ i < iterations
    /\ callee' = "sumFoo"
    /\ cpc' = "loop"
    /\ sum' = 0
    /\ j' = 0
    /\ UNCHANGED << exVars, driverVars, pc, i, dataVars, resultVars, timeVars, out, countVars,
                    calls, panicked >>

\* One iteration of sumFoo's loop; an index out of range panics.
sumFooStep ==
    /\ ~panicked
    /\ callee = "sumFoo"
    /\ cpc = "loop"
    /\ sumFooCond(fooSlice, j)
    /\ IF InRange(fooSlice, j)
       THEN /\ sum' = sumFooAdd(sum, fooSlice, j)
            /\ j' = j + 1
            /\ UNCHANGED panicked
       ELSE /\ panicked' = TRUE
            /\ UNCHANGED sumVars
    /\ UNCHANGED << exVars, driverVars, pc, i, dataVars, resultVars, timeVars, out, callee,
                    cpc, countVars, calls >>

\* return sum; the driver's resultFoo = sumFoo(fooSlice) (or _ = ...) and i++
sumFooReturn ==
    /\ ~panicked
    /\ callee = "sumFoo"
    /\ cpc = "loop"
    /\ ~sumFooCond(fooSlice, j)
    /\ resultFoo' = IF driver = "SimpleBenchmark" THEN sum ELSE resultFoo
    /\ i' = i + 1
    /\ calls' = calls + 1
    /\ callee' = "none"
    /\ cpc' = "none"
    /\ UNCHANGED << exVars, driverVars, pc, dataVars, resultBar, r, fr, timeVars, out, sumVars,
                    countVars, panicked >>

\* The end of the sumFoo loop. SimpleBenchmark: durationFoo := time.Since(start),
\* start = time.Now(), var resultBar, i := 0. BenchmarkSumFoo returns.
BenchFooEnd ==
    /\ ~panicked
    /\ pc = "benchFoo"
    /\ callee = "none"
    /\ ~(i < iterations)
    /\ \/ /\ driver = "SimpleBenchmark"
          /\ durationFoo' \in 0..MaxDur
          /\ i' = 0
          /\ calls' = 0
          /\ pc' = "benchBar"
       \/ /\ driver = "BenchmarkSumFoo"
          /\ pc' = "done"
          /\ UNCHANGED << durationFoo, i, calls >>
    /\ UNCHANGED << exVars, driverVars, dataVars, resultVars, durationBar, countTimeVars, out,
                    callee, cpc, sumVars, countVars, panicked >>

\* BenchmarkSumBar: b.ResetTimer(), i := 0
BenchBarBegin ==
    /\ ~panicked
    /\ driver = "BenchmarkSumBar"
    /\ pc = "setupBar"
    /\ ~(i < size)
    /\ i' = 0
    /\ calls' = 0
    /\ pc' = "benchBar"
    /\ UNCHANGED << exVars, driverVars, dataVars, resultVars, timeVars, out, callee, cpc,
                    sumVars, countVars, panicked >>

\* The call sumBar(bar) and the callee's var sum int64; i := 0
sumBarEnter ==
    /\ ~panicked
    /\ pc = "benchBar"
    /\ callee = "none"
    /\ i < iterations
    /\ callee' = "sumBar"
    /\ cpc' = "loop"
    /\ sum' = 0
    /\ j' = 0
    /\ UNCHANGED << exVars, driverVars, pc, i, dataVars, resultVars, timeVars, out, countVars,
                    calls, panicked >>

\* One iteration of sumBar's loop; an index out of range panics.
sumBarStep ==
    /\ ~panicked
    /\ callee = "sumBar"
    /\ cpc = "loop"
    /\ sumBarCond(bar, j)
    /\ IF InRange(bar.a, j)
       THEN /\ sum' = sumBarAdd(sum, bar, j)
            /\ j' = j + 1
            /\ UNCHANGED panicked
       ELSE /\ panicked' = TRUE
            /\ UNCHANGED sumVars
    /\ UNCHANGED << exVars, driverVars, pc, i, dataVars, resultVars, timeVars, out, callee,
                    cpc, countVars, calls >>

\* return sum; the driver's resultBar = sumBar(bar) (or _ = ...) and i++
sumBarReturn ==
    /\ ~panicked
    /\ callee = "sumBar"
    /\ cpc = "loop"
    /\ ~sumBarCond(bar, j)
    /\ resultBar' = IF driver = "SimpleBenchmark" THEN sum ELSE resultBar
    /\ i' = i + 1
    /\ calls' = calls + 1
    /\ callee' = "none"
    /\ cpc' = "none"
    /\ UNCHANGED << exVars, driverVars, pc, dataVars, resultFoo, r, fr, timeVars, out, sumVars,
                    countVars, panicked >>

\* The end of the sumBar loop. SimpleBenchmark: durationBar := time.Since(start).
\* BenchmarkSumBar returns.
BenchBarEnd ==
    /\ ~panicked
    /\ pc = "benchBar"
    /\ callee = "none"
    /\ ~(i < iterations)
    /\ \/ /\ driver = "SimpleBenchmark"
          /\ durationBar' \in 0..MaxDur
          /\ pc' = "display"
       \/ /\ driver = "BenchmarkSumBar"
          /\ pc' = "done"
          /\ UNCHANGED durationBar
    /\ UNCHANGED << exVars, driverVars, i, dataVars, resultVars, durationFoo, countTimeVars,
                    out, callee, cpc, sumVars, countVars, calls, panicked >>

\* SimpleBenchmark: the "sumFoo Results" and "sumBar Results" blocks.
\* Duration / Duration is Go's integer division; iterations is a positive constant.
SimpleDisplay ==
    /\ ~panicked
    /\ driver = "SimpleBenchmark"
    /\ pc = "display"
    /\ out' = out \o
         << [tag |-> "sumFoo", result |-> resultFoo, total |-> durationFoo,
             average |-> durationFoo \div iterations],
            [tag |-> "sumBar", result |-> resultBar, total |-> durationBar,
             average |-> durationBar \div iterations] >>
    /\ pc' = "compare"
    /\ UNCHANGED << exVars, driverVars, i, dataVars, resultVars, timeVars, callee, cpc,
                    sumVars, countVars, calls, panicked >>

\* A faulty comparison that prints faster / slower instead of slower / faster.
CompareLineInverted(nameA, durA, nameB, durB) ==
    IF durA < durB
    THEN [tag |-> "faster", who |-> nameA, than |-> nameB, num |-> durA, den |-> durB]
    ELSE IF durB < durA
         THEN [tag |-> "faster", who |-> nameB, than |-> nameA, num |-> durB, den |-> durA]
         ELSE [tag |-> "similar"]

\* The performance comparison of two durations: the line a driver prints. The
\* ratio float64(slower) / float64(faster) is kept as the pair num, den.
CompareLine(nameA, durA, nameB, durB) ==
    IF durA < durB
    THEN [tag |-> "faster", who |-> nameA, than |-> nameB, num |-> durB, den |-> durA]
    ELSE IF durB < durA
         THEN [tag |-> "faster", who |-> nameB, than |-> nameA, num |-> durA, den |-> durB]
         ELSE [tag |-> "similar"]

\* SimpleBenchmark: if durationFoo < durationBar ... else if ... else ...
SimpleCompare ==
    /\ ~panicked
    /\ driver = "SimpleBenchmark"
    /\ pc = "compare"
    /\ out' = Append(out, CompareLine("sumFoo", durationFoo, "sumBar", durationBar))
    /\ pc' = "verify"
    /\ UNCHANGED << exVars, driverVars, i, dataVars, resultVars, timeVars, callee, cpc,
                    sumVars, countVars, calls, panicked >>

\* What a verification block does with the line it has chosen: either branch is
\* one Printf, after which the driver returns.  Neither branch panics or exits.
verifyBlock(line) == [line |-> line, pc |-> "done", panicked |-> FALSE]

\* SimpleBenchmark: the line printed by "Verify results are the same".
SimpleVerifyLine(rf, rb) ==
    IF rf = rb
    THEN [tag |-> "same", a |-> rf]
    ELSE [tag |-> "differ", a |-> rf, b |-> rb]

\* SimpleBenchmark: if resultFoo == resultBar { Printf } else { Printf }, then return
SimpleVerify ==
    /\ ~panicked
    /\ driver = "SimpleBenchmark"
    /\ pc = "verify"
    /\ LET b == verifyBlock(SimpleVerifyLine(resultFoo, resultBar))
       IN  /\ out' = Append(out, b.line)
           /\ pc' = b.pc
           /\ panicked' = b.panicked
    /\ UNCHANGED << exVars, driverVars, i, dataVars, resultVars, timeVars, callee, cpc,
                    sumVars, countVars, calls >>

----------------------------------------------------------------------------
(* count and countFast, and the driver that calls them *)

CountFns == {"count", "countFast"}

\* One memory access of goroutine g to location f, k = "r" (read) or "w" (write).
\* ord: the workers this access of the caller is ordered with by happens-before
\* (the go statement has not run yet, or wg.Wait has returned after their wg.Done).
Access(g, f, k, ord) == [g |-> g, f |-> f, k |-> k, ord |-> ord]

\* Two accesses of different goroutines to one location, one of them a write, are
\* a data race unless happens-before orders them. Two workers are never ordered:
\* count and countFast synchronise the workers with the caller only.
Ordered(x, y) ==
    \/ x.g = "main" /\ y.g \in x.ord
    \/ y.g = "main" /\ x.g \in y.ord
Race(x, y) ==
    /\ x.g # y.g
    /\ x.f = y.f
    /\ "w" \in {x.k, y.k}
    /\ ~Ordered(x, y)

\* The workers the caller is ordered with at this moment.
MainOrd == {w \in Workers : wpc[w] = "unstarted"} \cup synced

\* The field of result a worker's += reads.
workerSource(w) == IF w = "A" THEN "sumA" ELSE "sumB"
\* Faulty workers: both write result.sumA.
workerTargetSumA(w) == "sumA"
\* The field of result a worker's += writes.
workerTarget(w) == IF w = "A" THEN "sumA" ELSE "sumB"
\* Faulty workers: both add inputs[i].a.
workerInputA(w, in, k) == in[k + 1].a
\* The operand inputs[i].a of the first worker, inputs[i].b of the second.
workerInput(w, in, k) == IF w = "A" THEN in[k + 1].a ELSE in[k + 1].b
\* A faulty loop condition: i <= len(inputs).
workerCondLeq(in, k) == k <= Len(in)
\* The workers' loop condition i < len(inputs)
workerCond(in, k) == k < Len(in)
\* A faulty counter: wg.Add(1).
wgAddOne(counter) == counter + 1
\* wg.Add(2)
wgAdd(counter) == counter + 2
\* A faulty result record: one record shared by all invocations, never reset.
newResultShared(fn, old) == old
\* result := Result{} in count, result := FastResult{} in countFast
newResult(fn, old) == IF fn = "count" THEN Result ELSE FastResult

\* CountBenchmark: the three header lines, start := time.Now(), var r Result, i := 0
CountBenchBegin ==
    /\ ~panicked
    /\ driver = "CountBenchmark"
    /\ pc = "setupInputs"
    /\ ~(i < size)
    /\ out' = Append(out, [tag |-> "header", size |-> size, iterations |-> iterations])
    /\ i' = 0
    /\ calls' = 0
    /\ pc' = "benchCount"
    /\ UNCHANGED << exVars, driverVars, dataVars, resultVars, timeVars, callee, cpc, sumVars,
                    countVars, panicked >>

\* The call, then wg := sync.WaitGroup{}; wg.Add(2); result := Result{}
CountEnter(fn) ==
    /\ ~panicked
    /\ pc = IF fn = "count" THEN "benchCount" ELSE "benchFast"
    /\ callee = "none"
    /\ i < iterations
    /\ callee' = fn
    /\ cpc' = "goA"
    /\ wg' = wgAdd(0)
    /\ result' = newResult(fn, result)
    /\ wpc' = [w \in Workers |-> "unstarted"]
    /\ wi' = [w \in Workers |-> 0]
    /\ wtmp' = [w \in Workers |-> 0]
    /\ synced' = {}
    /\ acc' = {Access("main", f, "w", Workers) : f \in {"sumA", "sumB"}}
    /\ UNCHANGED << exVars, driverVars, pc, i, dataVars, resultVars, timeVars, out, sumVars,
                    calls, panicked >>

\* go func() { ... }(): the first, then the second worker starts with i := 0
GoWorker(w) ==
    /\ ~panicked
    /\ callee \in CountFns
    /\ cpc = IF w = "A" THEN "goA" ELSE "goB"
    /\ wpc' = [wpc EXCEPT ![w] = "test"]
    /\ wi' = [wi EXCEPT ![w] = 0]
    /\ cpc' = IF w = "A" THEN "goB" ELSE "wait"
    /\ UNCHANGED << exVars, driverVars, pc, i, dataVars, resultVars, timeVars, out, callee,
                    sumVars, wg, result, wtmp, acc, synced, calls, panicked >>

\* A worker evaluates i < len(inputs): into the loop body, or on to wg.Done()
WorkerTest(w) ==
    /\ ~panicked
    /\ wpc[w] = "test"
    /\ wpc' = [wpc EXCEPT ![w] = IF workerCond(inputs, wi[w]) THEN "load" ELSE "wgdone"]
    /\ UNCHANGED << exVars, driverVars, pc, i, dataVars, resultVars, timeVars, out, callee,
                    cpc, sumVars, wg, result, wi, wtmp, acc, synced, calls, panicked >>

\* The read half of result.sumX += inputs[i].x; an index out of range panics.
WorkerLoad(w) ==
    /\ ~panicked
    /\ wpc[w] = "load"
    /\ IF InRange(inputs, wi[w])
       THEN /\ wtmp' = [wtmp EXCEPT ![w] = result[workerSource(w)]
                                           + workerInput(w, inputs, wi[w])]
            /\ wpc' = [wpc EXCEPT ![w] = "store"]
            /\ acc' = acc \cup {Access(w, "inputs", "r", {}),
                                Access(w, workerSource(w), "r", {})}
            /\ UNCHANGED panicked
       ELSE /\ panicked' = TRUE
            /\ UNCHANGED << wtmp, wpc, acc >>
    /\ UNCHANGED << exVars, driverVars, pc, i, dataVars, resultVars, timeVars, out, callee,
                    cpc, sumVars, wg, result, wi, synced, calls >>

\* A faulty statement that also writes the running sum back into the record read:
\* result.sumX += inputs[i].x; inputs[i].x = result.sumX
WorkerStoreIntoInputs(w) ==
    /\ ~panicked
    /\ wpc[w] = "store"
    /\ result' = [result EXCEPT ![workerTarget(w)] = wtmp[w]]
    /\ inputs' = [inputs EXCEPT ![wi[w] + 1] =
                     IF w = "A" THEN Foo(wtmp[w], @.b) ELSE Foo(@.a, wtmp[w])]
    /\ wi' = [wi EXCEPT ![w] = wi[w] + 1]
    /\ wpc' = [wpc EXCEPT ![w] = "test"]
    /\ acc' = acc \cup {Access(w, workerTarget(w), "w", {}), Access(w, "inputs", "w", {})}
    /\ UNCHANGED << exVars, driverVars, pc, i, fooSlice, bar, resultVars, timeVars, out,
                    callee, cpc, sumVars, wg, wtmp, synced, calls, panicked >>

\* The write half of result.sumX += inputs[i].x, then i++
WorkerStore(w) ==
    /\ ~panicked
    /\ wpc[w] = "store"
    /\ result' = [result EXCEPT ![workerTarget(w)] = wtmp[w]]
    /\ wi' = [wi EXCEPT ![w] = wi[w] + 1]
    /\ wpc' = [wpc EXCEPT ![w] = "test"]
    /\ acc' = acc \cup {Access(w, workerTarget(w), "w", {})}
    /\ UNCHANGED << exVars, driverVars, pc, i, dataVars, resultVars, timeVars, out, callee,
                    cpc, sumVars, wg, wtmp, synced, calls, panicked >>

\* A faulty worker that returns without wg.Done().
WorkerReturnNoDone(w) ==
    /\ ~panicked
    /\ wpc[w] = "wgdone"
    /\ wpc' = [wpc EXCEPT ![w] = "exit"]
    /\ UNCHANGED << exVars, driverVars, pc, i, dataVars, resultVars, timeVars, out, callee,
                    cpc, sumVars, wg, result, wi, wtmp, acc, synced, calls, panicked >>

\* wg.Done(): the counter goes down by one; a negative counter panics. The
\* worker's function returns.
WorkerDone(w) ==
    /\ ~panicked
    /\ wpc[w] = "wgdone"
    /\ wg' = wg - 1
    /\ panicked' = (wg - 1 < 0)
    /\ wpc' = [wpc EXCEPT ![w] = "exit"]
    /\ UNCHANGED << exVars, driverVars, pc, i, dataVars, resultVars, timeVars, out, callee,
                    cpc, sumVars, result, wi, wtmp, acc, synced, calls >>

\* wg.Wait() returns once the counter is 0; every wg.Done() so far happens before it.
WgWait ==
    /\ ~panicked
    /\ callee \in CountFns
    /\ cpc = "wait"
    /\ wg = 0
    /\ synced' = {w \in Workers : wpc[w] = "exit"}
    /\ cpc' = "ret"
    /\ UNCHANGED << exVars, driverVars, pc, i, dataVars, resultVars, timeVars, out, callee,
                    sumVars, wg, result, wpc, wi, wtmp, acc, calls, panicked >>

\* return result; the driver's r = count(inputs) or fr = countFast(inputs), and i++
CountReturn(fn) ==
    /\ ~panicked
    /\ callee = fn
    /\ cpc = "ret"
    /\ acc' = acc \cup {Access("main", f, "r", MainOrd) : f \in {"sumA", "sumB"}}
    /\ IF fn = "count"
       THEN r' = result /\ UNCHANGED fr
       ELSE fr' = result /\ UNCHANGED r
    /\ i' = i + 1
    /\ calls' = calls + 1
    /\ callee' = "none"
    /\ cpc' = "none"
    /\ UNCHANGED << exVars, driverVars, pc, dataVars, resultFoo, resultBar, timeVars, out,
                    sumVars, wg, result, wpc, wi, wtmp, synced, panicked >>

countEnter == CountEnter("count")
countReturn == CountReturn("count")
countFastEnter == CountEnter("countFast")
countFastReturn == CountReturn("countFast")

\* CountBenchmark: durationResult := time.Since(start); start = time.Now();
\* var fr FastResult; i := 0
CountBenchMid ==
    /\ ~panicked
    /\ driver = "CountBenchmark"
    /\ pc = "benchCount"
    /\ callee = "none"
    /\ ~(i < iterations)
    /\ durationResult' \in 0..MaxDur
    /\ i' = 0
    /\ calls' = 0
    /\ pc' = "benchFast"
    /\ UNCHANGED << exVars, driverVars, dataVars, resultVars, durationFoo, durationBar,
                    durationFast, out, callee, cpc, sumVars, countVars, panicked >>

\* CountBenchmark: durationFast := time.Since(start)
CountBenchEnd ==
    /\ ~panicked
    /\ driver = "CountBenchmark"
    /\ pc = "benchFast"
    /\ callee = "none"
    /\ ~(i < iterations)
    /\ durationFast' \in 0..MaxDur
    /\ pc' = "display"
    /\ UNCHANGED << exVars, driverVars, i, dataVars, resultVars, durationFoo, durationBar,
                    durationResult, out, callee, cpc, sumVars, countVars, calls,
                    panicked >>

\* CountBenchmark: the "Result (unpadded)" and "FastResult (padded)" blocks.
CountDisplay ==
    /\ ~panicked
    /\ driver = "CountBenchmark"
    /\ pc = "display"
    /\ out' = out \o
         << [tag |-> "Result", sumA |-> r.sumA, sumB |-> r.sumB,
             total |-> durationResult, average |-> durationResult \div iterations],
            [tag |-> "FastResult", sumA |-> fr.sumA, sumB |-> fr.sumB,
             total |-> durationFast, average |-> durationFast \div iterations] >>
    /\ pc' = "compare"
    /\ UNCHANGED << exVars, driverVars, i, dataVars, resultVars, timeVars, callee, cpc,
                    sumVars, countVars, calls, panicked >>

\* CountBenchmark: if durationFast < durationResult ... else if ... else ...
CountCompare ==
    /\ ~panicked
    /\ driver = "CountBenchmark"
    /\ pc = "compare"
    /\ out' = Append(out, CompareLine("FastResult", durationFast, "Result", durationResult))
    /\ pc' = "verify"
    /\ UNCHANGED << exVars, driverVars, i, dataVars, resultVars, timeVars, callee, cpc,
                    sumVars, countVars, calls, panicked >>

\* CountBenchmark: the line printed by "Verify results are identical".
CountVerifyLine(x, y) ==
    IF x.sumA = y.sumA /\ x.sumB = y.sumB
    THEN [tag |-> "same"]
    ELSE [tag |-> "differ", a |-> x.sumA, b |-> x.sumB, fa |-> y.sumA, fb |-> y.sumB]

\* CountBenchmark: if r.sumA == fr.sumA && r.sumB == fr.sumB { Printf } else { Printf },
\* then return
CountVerify ==
    /\ ~panicked
    /\ driver = "CountBenchmark"
    /\ pc = "verify"
    /\ LET b == verifyBlock(CountVerifyLine(r, fr))
       IN  /\ out' = Append(out, b.line)
           /\ pc' = b.pc
           /\ panicked' = b.panicked
    /\ UNCHANGED << exVars, driverVars, i, dataVars, resultVars, timeVars, callee, cpc,
                    sumVars, countVars, calls >>

----------------------------------------------------------------------------
(* The specification *)

\* The steps of the goroutine that runs the driver.
MainNext ==
    \/ SetupFooMake \/ SetupFooStep \/ SetupBarMake \/ SetupBarStep
    \/ SetupInputsMake \/ SetupInputsStep
    \/ BenchFooBegin \/ sumFooEnter \/ sumFooStep \/ sumFooReturn \/ BenchFooEnd
    \/ BenchBarBegin \/ sumBarEnter \/ sumBarStep \/ sumBarReturn \/ BenchBarEnd
    \/ SimpleDisplay \/ SimpleCompare \/ SimpleVerify
    \/ CountBenchBegin \/ countEnter \/ countFastEnter
    \/ (\E w \in Workers : GoWorker(w))
    \/ WgWait \/ countReturn \/ countFastReturn
    \/ CountBenchMid \/ CountBenchEnd
    \/ CountDisplay \/ CountCompare \/ CountVerify

\* The steps of one worker goroutine of count / countFast.
WorkerNext(w) ==
    \/ WorkerTest(w)
    \/ WorkerLoad(w)
    \/ WorkerStore(w)
    \/ WorkerDone(w)

Next == MainNext \/ (\E w \in Workers : WorkerNext(w))

Spec == Init /\ [][Next]_vars

\* The Go scheduler runs every runnable goroutine eventually.
FairSpec ==
    /\ Init
    /\ [][Next]_vars
    /\ WF_vars(MainNext)
    /\ \A w \in Workers : WF_vars(WorkerNext(w))

----------------------------------------------------------------------------
(* Properties *)

\* 0 + 1 + ... + (n - 1)
RECURSIVE SumBelow(_)
SumBelow(n) == IF n <= 0 THEN 0 ELSE (n - 1) + SumBelow(n - 1)

InCount == callee \in CountFns
AfterBench == pc \in {"display", "compare", "verify", "done"}
LastLine == out[Len(out)]

\* C1: for every dataset size and every interleaving of the two workers, count
\* and countFast return sumA = 0 + ... + (N - 1) and sumB = 2 * (0 + ... + (N - 1)),
\* and the padded and unpadded variants return equal sums.
C1_CountSums ==
    /\ (InCount /\ cpc = "ret") =>
          /\ result.sumA = SumBelow(size)
          /\ result.sumB = 2 * SumBelow(size)
    /\ (driver = "CountBenchmark" /\ pc = "benchCount" /\ calls >= 1) =>
          /\ r.sumA = SumBelow(size)
          /\ r.sumB = 2 * SumBelow(size)
    /\ (driver = "CountBenchmark" /\ pc = "benchFast" /\ calls >= 1) =>
          /\ fr.sumA = SumBelow(size)
          /\ fr.sumB = 2 * SumBelow(size)
    /\ (driver = "CountBenchmark" /\ AfterBench) =>
          /\ r.sumA = fr.sumA
          /\ r.sumB = fr.sumB
          /\ r.sumA = SumBelow(size)
          /\ r.sumB = 2 * SumBelow(size)

\* Both variants have returned non-zero sums of a dataset of at least two records.
C1_Witness ==
    /\ driver = "CountBenchmark"
    /\ pc = "done"
    /\ size >= 2
    /\ r.sumA = SumBelow(size) /\ r.sumA > 0
    /\ fr.sumB = 2 * SumBelow(size)

\* C2: count and countFast have no data race: the first worker writes only
\* result.sumA, the second only result.sumB, neither touches the other's field,
\* and the caller reads the record only after both workers have finished.
C2_NoDataRace ==
    /\ \A x, y \in acc : ~Race(x, y)
    /\ \A x \in acc :
          /\ x.g = "A" => x.f \in {"sumA", "inputs"}
          /\ x.g = "B" => x.f \in {"sumB", "inputs"}
          /\ x.f = "inputs" => x.k = "r"
          /\ (x.g = "main" /\ x.k = "r") =>
                /\ x.ord = Workers
                /\ \A w \in Workers : wpc[w] = "exit"

\* Both workers have written their field and the caller has read the record.
C2_Witness ==
    /\ callee = "none"
    /\ Access("A", "sumA", "w", {}) \in acc
    /\ Access("B", "sumB", "w", {}) \in acc
    /\ Access("main", "sumA", "r", Workers) \in acc
    /\ Access("main", "sumB", "r", Workers) \in acc

\* C3: an invocation of count or countFast launches exactly two workers, the
\* WaitGroup counter is the number of workers that have not called wg.Done, and
\* the function returns only after both workers have finished every addition.
C3_ReturnAfterBothDone ==
    /\ InCount => wg = Cardinality({w \in Workers : wpc[w] # "exit"})
    /\ (InCount /\ cpc \in {"wait", "ret"}) =>
          Cardinality({w \in Workers : wpc[w] # "unstarted"}) = 2
    /\ (InCount /\ cpc = "ret") =>
          /\ wg = 0
          /\ \A w \in Workers : wpc[w] = "exit" /\ wi[w] = Len(inputs)

\* The caller is about to return the record of a dataset of at least two records.
C3_Witness ==
    /\ InCount
    /\ cpc = "ret"
    /\ size >= 2
    /\ \A w \in Workers : wpc[w] = "exit" /\ wi[w] = size

\* C4: for every dataset size, sumFoo over the row-oriented dataset and sumBar
\* over the column-oriented dataset return the same value, 0 + ... + (N - 1).
C4_SumFooEqualsSumBar ==
    /\ (callee = "sumFoo" /\ ~sumFooCond(fooSlice, j)) => sum = SumBelow(size)
    /\ (callee = "sumBar" /\ ~sumBarCond(bar, j)) => sum = SumBelow(size)
    /\ (driver = "SimpleBenchmark" /\ pc = "benchFoo" /\ calls >= 1) =>
          resultFoo = SumBelow(size)
    /\ (driver = "SimpleBenchmark" /\ pc = "benchBar" /\ calls >= 1) =>
          resultBar = SumBelow(size)
    /\ (driver = "SimpleBenchmark" /\ AfterBench) =>
          /\ resultFoo = resultBar
          /\ resultFoo = SumBelow(size)

\* SimpleBenchmark has finished with a non-zero sum.
C4_Witness ==
    /\ driver = "SimpleBenchmark"
    /\ pc = "done"
    /\ size >= 2
    /\ resultFoo > 0
    /\ resultBar = resultFoo

\* C5: under fair scheduling every invocation of count and countFast terminates:
\* both workers reach wg.Done, the counter reaches 0, wg.Wait unblocks and the
\* call returns; no state before the driver's end is a deadlock.
C5_CountTerminates ==
    /\ [](pc = "done" \/ ENABLED Next)
    /\ \A w \in Workers : (InCount /\ cpc = "wait") ~> (wpc[w] = "exit")
    /\ (InCount /\ cpc = "wait") ~> (InCount /\ cpc = "ret" /\ wg = 0)
    /\ InCount ~> (callee = "none" /\ ~panicked)

\* The caller is blocked in wg.Wait while both workers are still running.
C5_Witness ==
    /\ InCount
    /\ cpc = "wait"
    /\ wg = 2
    /\ size >= 2
    /\ \A w \in Workers : wpc[w] \in {"test", "load", "store"}

C7_Idempotent ==
    [][ /\ (callee = "none" /\ callee' \in {"sumFoo", "sumBar"}) => sum' = 0
        /\ (callee = "none" /\ callee' \in CountFns) =>
              (result'.sumA = 0 /\ result'.sumB = 0)
        /\ (driver = "SimpleBenchmark" /\ callee = "sumFoo" /\ callee' = "none"
              /\ calls >= 1) => resultFoo' = resultFoo
        /\ (driver = "SimpleBenchmark" /\ callee = "sumBar" /\ callee' = "none"
              /\ calls >= 1) => resultBar' = resultBar
        /\ (callee = "count" /\ callee' = "none" /\ calls >= 1) => r' = r
        /\ (callee = "countFast" /\ callee' = "none" /\ calls >= 1) => fr' = fr
      ]_vars

\* countFast has returned twice on a dataset with non-zero sums.
C7_Witness ==
    /\ driver = "CountBenchmark"
    /\ pc = "benchFast"
    /\ callee = "none"
    /\ calls = 2
    /\ fr.sumA > 0
    /\ fr.sumB > 0

\* C8: sumFoo, sumBar, count and countFast, both workers included, leave the
\* input dataset unchanged at every step.
C8_InputsUnchanged ==
    [][ (callee # "none" \/ callee' # "none" \/ \E w \in Workers : wpc[w] # wpc'[w]) =>
           (fooSlice' = fooSlice /\ bar' = bar /\ inputs' = inputs) ]_vars

\* Both workers are between the two halves of an addition on a non-zero record.
C8_Witness ==
    /\ InCount
    /\ \A w \in Workers : wpc[w] = "store" /\ wi[w] >= 1
    /\ result.sumA # 0

\* C9: on an empty dataset sumFoo and sumBar return 0, count and countFast return
\* sumA = 0 and sumB = 0, no goroutine indexes the dataset, nothing panics, and
\* both workers signal completion before the call returns.
C9_EmptyDataset ==
    size = 0 =>
       /\ ~panicked
       /\ sum = 0 /\ j = 0
       /\ resultFoo = 0 /\ resultBar = 0
       /\ result.sumA = 0 /\ result.sumB = 0
       /\ r.sumA = 0 /\ r.sumB = 0
       /\ fr.sumA = 0 /\ fr.sumB = 0
       /\ \A w \in Workers : wpc[w] \notin {"load", "store"} /\ wi[w] = 0
       /\ \A x \in acc : x.f # "inputs"
       /\ (InCount /\ cpc = "ret") => (wg = 0 /\ \A w \in Workers : wpc[w] = "exit")

\* CountBenchmark has run to its end on the empty dataset.
C9_Witness ==
    /\ size = 0
    /\ driver = "CountBenchmark"
    /\ pc = "done"
    /\ synced = Workers
    /\ fr.sumA = 0 /\ fr.sumB = 0

\* The dataset of the given size in each layout.
RowDataset(n) == [k \in 1..n |-> Foo(k - 1, 2 * (k - 1))]
ColumnDataset(n) == [a |-> [k \in 1..n |-> k - 1], b |-> [k \in 1..n |-> 2 * (k - 1)]]

\* C10: every dataset built for size N has field a = i and field b = 2i at every
\* index i, in both layouts, and bar.a and bar.b have the same length (N once
\* made), index-aligned.
C10_Dataset ==
    /\ Len(bar.a) = Len(bar.b)
    /\ pc = "setupFoo" =>
          /\ Len(fooSlice) = size
          /\ \A k \in 1..i : fooSlice[k] = Foo(k - 1, 2 * (k - 1))
    /\ pc = "setupBar" =>
          /\ Len(bar.a) = size
          /\ \A k \in 1..i : bar.a[k] = k - 1 /\ bar.b[k] = 2 * (k - 1)
    /\ pc = "setupInputs" =>
          /\ Len(inputs) = size
          /\ \A k \in 1..i : inputs[k] = Foo(k - 1, 2 * (k - 1))
    /\ (driver \in {"SimpleBenchmark", "BenchmarkSumFoo"} /\ pc \notin {"start", "setupFoo"})
          => fooSlice = RowDataset(size)
    /\ (driver \in {"SimpleBenchmark", "BenchmarkSumBar"}
          /\ pc \notin {"start", "setupFoo", "setupBar"})
          => bar = ColumnDataset(size)
    /\ (driver = "CountBenchmark" /\ pc \notin {"start", "setupInputs"})
          => inputs = RowDataset(size)

\* SimpleBenchmark is running sumBar over a fully built dataset of at least two records.
C10_Witness ==
    /\ driver = "SimpleBenchmark"
    /\ callee = "sumBar"
    /\ size >= 2
    /\ fooSlice[size] = Foo(size - 1, 2 * (size - 1))
    /\ bar.a[size] = size - 1
    /\ bar.b[size] = 2 * (size - 1)

----------------------------------------------------------------------------
(* The program entry point and the concurrency examples *)

benchVars == << driverVars, pc, i, dataVars, resultVars, timeVars, out, callee, cpc,
                sumVars, countVars, calls, panicked >>

\* No benchmark driver runs.
BenchIdle ==
    /\ driver = "none"
    /\ size = 0
    /\ iterations = 1
    /\ pc = "idle"
    /\ i = 0
    /\ fooSlice = << >>
    /\ bar = Bar
    /\ inputs = << >>
    /\ resultFoo = 0
    /\ resultBar = 0
    /\ r = Result
    /\ fr = FastResult
    /\ durationFoo = 0
    /\ durationBar = 0
    /\ durationResult = 0
    /\ durationFast = 0
    /\ out = << >>
    /\ callee = "none"
    /\ cpc = "none"
    /\ sum = 0
    /\ j = 0
    /\ wg = 0
    /\ result = Result
    /\ wpc = [w \in Workers |-> "unstarted"]
    /\ wi = [w \in Workers |-> 0]
    /\ wtmp = [w \in Workers |-> 0]
    /\ acc = {}
    /\ synced = {}
    /\ calls = 0
    /\ panicked = FALSE

----------------------------------------------------------------------------
(* main and mistake63 *)

\* How the build scopes the loop variable of "for _, i := range s": one variable
\* shared by all iterations (before Go 1.22) or one per iteration (Go 1.22 on).
LoopVarSemantics == {"shared", "perIteration"}

\* mistake63: s := []int{1, 2, 3}
mistake63Slice == << 1, 2, 3 >>

\* A faulty loop header: for i := range s binds the index.
rangeIndex(s, k) == k
\* for _, i := range s: the value bound to i in iteration k.
rangeValue(s, k) == s[k + 1]

\* The functions main calls, in order; every other call of main.go is commented out.
mainCalls == << "mistake63" >>

\* main is about to run.
MainStart(lv) ==
    [pc |-> "start", loopvar |-> lv, ran |-> << >>, s |-> mistake63Slice, k |-> 0,
     i |-> 0,
     g |-> [n \in 1..Len(mistake63Slice) |-> [st |-> "unstarted", val |-> 0, arg |-> 0]],
     out |-> << >>, exit |-> -1]

\* main: fmt.Println("=== Concurrency Practice Examples ===\n")
MainPrintHeader(m) ==
    IF m.pc = "start"
    THEN {[m EXCEPT !.pc = "call", !.out = Append(@, "header")]}
    ELSE {}

\* main: mistake63(); the callee's s := []int{1, 2, 3}
MainCallMistake63(m) ==
    IF m.pc = "call" /\ Len(m.ran) < Len(mainCalls)
    THEN {[m EXCEPT !.pc = "range", !.ran = Append(@, mainCalls[Len(m.ran) + 1]),
                    !.k = 0]}
    ELSE {}

\* mistake63: one iteration of the range loop: i is bound, go func() { ... }() starts
\* a goroutine that captures i.
Mistake63Iterate(m) ==
    IF m.pc = "range" /\ m.k < Len(m.s)
    THEN {[m EXCEPT !.i = rangeValue(m.s, m.k),
                    !.g[m.k + 1] = [st |-> "ready", val |-> rangeValue(m.s, m.k),
                                    arg |-> 0],
                    !.k = @ + 1]}
    ELSE {}

\* mistake63 returns at the end of the range loop without waiting for anything.
Mistake63Return(m) ==
    IF m.pc = "range" /\ ~(m.k < Len(m.s))
    THEN {[m EXCEPT !.pc = "println"]}
    ELSE {}

\* main: fmt.Println()
MainPrintln(m) ==
    IF m.pc = "println"
    THEN {[m EXCEPT !.pc = "return", !.out = Append(@, "")]}
    ELSE {}

\* main returns: the process exits with status 0 and every goroutine is gone.
MainReturn(m) ==
    IF m.pc = "return"
    THEN {[m EXCEPT !.pc = "exited", !.exit = 0]}
    ELSE {}

\* The values a goroutine's read of the loop variable can yield.  With one
\* variable per iteration: the value bound in its own iteration n.  With a shared
\* variable the read is not synchronised with the loop's later assignments: it
\* yields the value of iteration n, which the go statement orders before it, or
\* of any later iteration that has assigned i by now.
loopVarRead(m, n) ==
    IF m.loopvar = "shared"
    THEN {rangeValue(m.s, it - 1) : it \in n..m.k}
    ELSE {m.g[n].val}

\* A goroutine of mistake63 evaluates the argument i of fmt.Printf("%d\n", i).
\* It runs only while the process lives.
Mistake63Load(m, n) ==
    IF m.pc # "exited" /\ m.g[n].st = "ready"
    THEN {[m EXCEPT !.g[n].st = "loaded", !.g[n].arg = v] : v \in loopVarRead(m, n)}
    ELSE {}

\* Later, fmt.Printf writes the line with the value loaded before; main and the
\* other goroutines may have run in between.
Mistake63Print(m, n) ==
    IF m.pc # "exited" /\ m.g[n].st = "loaded"
    THEN {[m EXCEPT !.g[n].st = "done", !.out = Append(@, ToString(m.g[n].arg))]}
    ELSE {}

\* An example step: the example's state moves to one of the successors, nothing
\* else changes.
MainStep(S) ==
    /\ example = "main"
    /\ mainSt' \in S
    /\ UNCHANGED << benchVars, example, layout, sel, cust, mrg, wat, app >>

MainGoroutineNext ==
    \/ MainStep(MainPrintHeader(mainSt))
    \/ MainStep(MainCallMistake63(mainSt))
    \/ MainStep(Mistake63Iterate(mainSt))
    \/ MainStep(Mistake63Return(mainSt))
    \/ MainStep(MainPrintln(mainSt))
    \/ MainStep(MainReturn(mainSt))

Mistake63GoroutineNext(n) ==
    \/ MainStep(Mistake63Load(mainSt, n))
    \/ MainStep(Mistake63Print(mainSt, n))

MainExampleNext ==
    \/ MainGoroutineNext
    \/ \E n \in 1..Len(mistake63Slice) : Mistake63GoroutineNext(n)

MainExampleInit ==
    /\ example = "main"
    /\ mainSt \in {MainStart(lv) : lv \in LoopVarSemantics}

----------------------------------------------------------------------------
(* The memory layout of Result and FastResult *)

\* A faulty FastResult: sumA int64; _ [48]byte; sumB int64
FastResultFields48 ==
    << [name |-> "sumA", size |-> 8, align |-> 8],
       [name |-> "_", size |-> 48, align |-> 1],
       [name |-> "sumB", size |-> 8, align |-> 8] >>

\* type Result struct { sumA int64; sumB int64 }: an int64 has size 8, alignment 8.
ResultFields ==
    << [name |-> "sumA", size |-> 8, align |-> 8],
       [name |-> "sumB", size |-> 8, align |-> 8] >>

\* type FastResult struct { sumA int64; _ [56]byte; sumB int64 }: a byte array
\* has alignment 1.
FastResultFields ==
    << [name |-> "sumA", size |-> 8, align |-> 8],
       [name |-> "_", size |-> 56, align |-> 1],
       [name |-> "sumB", size |-> 8, align |-> 8] >>

\* The smallest multiple of a that is at least x.
AlignUp(x, a) == ((x + a - 1) \div a) * a

\* Go lays the fields of a struct out in declaration order, each at the next
\* offset that satisfies its alignment: the offset of field number k.
RECURSIVE FieldOffset(_, _)
FieldOffset(fields, k) ==
    IF k = 1
    THEN 0
    ELSE AlignUp(FieldOffset(fields, k - 1) + fields[k - 1].size, fields[k].align)

\* The offset of the field of that name.
OffsetOf(fields, name) ==
    FieldOffset(fields, CHOOSE k \in 1..Len(fields) : fields[k].name = name)

FieldsOf(type) == IF type = "Result" THEN ResultFields ELSE FastResultFields

\* The cache line an address falls in.
CacheLineOf(addr, lineSize) == addr \div lineSize

\* A value of either type is about to be placed at an 8-byte-aligned address.
LayoutInit ==
    /\ example = "layout"
    /\ layout \in [pc : {"start"}, type : {"Result", "FastResult"},
                   base : {8 * k : k \in 0..MaxBaseWords}, addrA : {0}, addrB : {0}]

\* result := Result{} / result := FastResult{}: the fields get their addresses.
LayoutPlace ==
    /\ example = "layout"
    /\ layout.pc = "start"
    /\ layout' = [layout EXCEPT
                    !.pc = "placed",
                    !.addrA = layout.base + OffsetOf(FieldsOf(layout.type), "sumA"),
                    !.addrB = layout.base + OffsetOf(FieldsOf(layout.type), "sumB")]
    /\ UNCHANGED << benchVars, example, mainSt, sel, cust, mrg, wat, app >>

LayoutSpecInit ==
    /\ BenchIdle
    /\ LayoutInit
    /\ mainSt = Idle /\ sel = Idle /\ cust = Idle /\ mrg = Idle /\ wat = Idle
    /\ app = Idle

LayoutSpec == LayoutSpecInit /\ [][LayoutPlace]_vars

----------------------------------------------------------------------------
(* #64: select over a message channel and a disconnect channel *)

\* A producer loop that runs once more: for i := 0; i <= 10; i++
producerCondLeq(k) == k <= 10

\* The producer's loop condition: i < 10
producerCond(k) == k < 10

\* The state of mistake64 / avoid64 on entry.  messageCh and disconnectCh are
\* unbuffered, so a channel holds nothing: a send is pending exactly while the
\* producer is blocked in it (prod = "sendMsg" / "sendDisc").
SelectStart(variant) ==
    [pc |-> "start", variant |-> variant, prod |-> "unstarted", i |-> 0, count |-> 0,
     received |-> << >>, out |-> << >>]

\* fmt.Println(header); make(chan int); make(chan struct{}); go func() {...}()
SelectBegin(s) ==
    IF s.pc = "start"
    THEN {[s EXCEPT !.pc = "select", !.prod = "loop", !.out = Append(@, "header")]}
    ELSE {}

\* The producer's loop test: on to messageCh <- i, or to disconnectCh <- struct{}{}.
ProducerLoop(s) ==
    IF s.prod = "loop"
    THEN {[s EXCEPT !.prod = IF producerCond(s.i) THEN "sendMsg" ELSE "sendDisc"]}
    ELSE {}

\* A receive from the unbuffered messageCh completes together with the pending
\* send: the receiver gets i and the producer goes on to i++.
receiveMessage(s) ==
    [s EXCEPT !.received = Append(@, s.i), !.prod = "loop", !.i = @ + 1]

\* case v := <-messageCh of the outer select.  mistake64 prints and counts,
\* avoid64 prints.
SelectMessage(s) ==
    IF s.pc = "select" /\ s.prod = "sendMsg"
    THEN {[receiveMessage(s) EXCEPT
             !.count = IF s.variant = "mistake64" THEN @ + 1 ELSE @,
             !.out = Append(@, IF s.variant = "mistake64"
                               THEN "Received: " \o ToString(s.i)
                               ELSE ToString(s.i))]}
    ELSE {}

\* case <-disconnectCh of the outer select.  mistake64 prints the count and
\* returns, avoid64 enters its inner loop.
SelectDisconnect(s) ==
    IF s.pc = "select" /\ s.prod = "sendDisc"
    THEN {IF s.variant = "mistake64"
          THEN [s EXCEPT !.prod = "done", !.pc = "returned",
                         !.out = Append(@, "Disconnection, processed "
                                           \o ToString(s.count) \o " messages")]
          ELSE [s EXCEPT !.prod = "done", !.pc = "inner"]}
    ELSE {}

\* case v := <-messageCh of avoid64's inner select.
InnerMessage(s) ==
    IF s.pc = "inner" /\ s.prod = "sendMsg"
    THEN {[receiveMessage(s) EXCEPT !.out = Append(@, ToString(s.i))]}
    ELSE {}

\* default of avoid64's inner select, taken when no send is pending on messageCh.
InnerDefault(s) ==
    IF s.pc = "inner" /\ s.prod # "sendMsg"
    THEN {[s EXCEPT !.pc = "returned", !.out = Append(@, "disconnection, return")]}
    ELSE {}

\* avoid64's inner select: a pending message if there is one, else default.
InnerSelect(s) == InnerMessage(s) \cup InnerDefault(s)

\* Every state one step after s.
SelectSuccessors(s) ==
    SelectBegin(s) \cup ProducerLoop(s) \cup SelectMessage(s) \cup SelectDisconnect(s)
       \cup InnerSelect(s)

\* Every state some execution reaches from a state of S.
RECURSIVE SelectReach(_)
SelectReach(S) ==
    LET T == S \cup UNION {SelectSuccessors(s) : s \in S}
    IN  IF T = S THEN S ELSE SelectReach(T)

SelectStep(S) ==
    /\ example \in {"mistake64", "avoid64"}
    /\ sel' \in S
    /\ UNCHANGED << benchVars, example, mainSt, layout, cust, mrg, wat, app >>

SelectConsumerNext ==
    \/ SelectStep(SelectBegin(sel))
    \/ SelectStep(SelectMessage(sel))
    \/ SelectStep(SelectDisconnect(sel))
    \/ SelectStep(InnerSelect(sel))

SelectProducerNext == SelectStep(ProducerLoop(sel))

SelectExampleNext == SelectConsumerNext \/ SelectProducerNext

SelectExampleInit ==
    /\ example \in {"mistake64", "avoid64"}
    /\ sel = SelectStart(example)

----------------------------------------------------------------------------
(* #68: Customer and CustomerSafe *)

\* An Errorf that never formats the receiver.
formatsReceiverNever(type) == FALSE

\* Customer.UpdateAge formats c itself with %v, CustomerSafe.UpdateAge formats
\* c.id with %s.  A *Customer has a String method, so %v calls it.
formatsReceiver(type) == type = "Customer"

\* A deferred unlock that is not run.
deferredUnlockNone(m) == m

\* defer c.mutex.Unlock()
deferredUnlock(m) == [m EXCEPT !.w = FALSE]

\* fmt.Sprintf("id %s, age %d", c.id, c.age)
customerString(id, age) == "id " \o id \o ", age " \o ToString(age)

\* customer := &Customer{id: "123", age: 25} (or &CustomerSafe{...}) on entry of
\* mistake68 / avoid68.  mutex.w: the write lock is held; mutex.r: read locks held.
CustomerStart(type) ==
    [pc |-> "start", type |-> type, mutex |-> [w |-> FALSE, r |-> 0],
     id |-> "123", age |-> 25, op |-> "none", arg |-> 0, ageAtCall |-> 25,
     err |-> "nil", str |-> "", from |-> "none", ncalls |-> 0, out |-> << >>]

\* fmt.Println(header); customer := ...
CustomerBegin(c) ==
    IF c.pc = "start"
    THEN {[c EXCEPT !.pc = "idle", !.out = Append(@, "header")]}
    ELSE {}

\* err := customer.UpdateAge(a)
CallUpdateAge(c, a) ==
    IF c.pc = "idle" /\ c.ncalls < MaxCalls
    THEN {[c EXCEPT !.pc = "ua_lock", !.op = "UpdateAge", !.arg = a,
                    !.ageAtCall = c.age, !.err = "nil", !.ncalls = @ + 1]}
    ELSE {}

\* customer.String() called by the caller itself.
CallString(c) ==
    IF c.pc = "idle" /\ c.ncalls < MaxCalls
    THEN {[c EXCEPT !.pc = "s_rlock", !.op = "String", !.from = "caller",
                    !.ncalls = @ + 1]}
    ELSE {}

\* c.mutex.Lock(): waits until no lock is held.
UpdateAgeLock(c) ==
    IF c.pc = "ua_lock" /\ ~c.mutex.w /\ c.mutex.r = 0
    THEN {[c EXCEPT !.pc = "ua_test", !.mutex.w = TRUE]}
    ELSE {}

\* if age < 0 { return fmt.Errorf(...) }; c.age = age; return nil
UpdateAgeTest(c) ==
    IF c.pc = "ua_test"
    THEN {IF c.arg < 0
          THEN IF formatsReceiver(c.type)
               THEN [c EXCEPT !.pc = "s_rlock", !.from = "errorf"]
               ELSE [c EXCEPT !.pc = "ua_unlock",
                              !.err = "age should be positive for customer id " \o c.id]
          ELSE [c EXCEPT !.pc = "ua_unlock", !.age = c.arg, !.err = "nil"]}
    ELSE {}

\* c.mutex.RLock(): waits while the write lock is held.
StringRLock(c) ==
    IF c.pc = "s_rlock" /\ ~c.mutex.w
    THEN {[c EXCEPT !.pc = "s_fmt", !.mutex.r = @ + 1]}
    ELSE {}

\* return fmt.Sprintf("id %s, age %d", c.id, c.age)
StringFormat(c) ==
    IF c.pc = "s_fmt"
    THEN {[c EXCEPT !.pc = "s_runlock", !.str = customerString(c.id, c.age)]}
    ELSE {}

\* defer c.mutex.RUnlock(), then back to the caller or into Errorf's message.
StringRUnlock(c) ==
    IF c.pc = "s_runlock"
    THEN {IF c.from = "errorf"
          THEN [c EXCEPT !.pc = "ua_unlock", !.mutex.r = @ - 1,
                         !.err = "age should be positive for customer " \o c.str]
          ELSE [c EXCEPT !.pc = "idle", !.mutex.r = @ - 1]}
    ELSE {}

\* The deferred unlock of UpdateAge runs as it returns.
UpdateAgeUnlock(c) ==
    IF c.pc = "ua_unlock"
    THEN {[c EXCEPT !.pc = "ua_ret", !.mutex = deferredUnlock(@)]}
    ELSE {}

\* if err != nil { fmt.Println("Error:", err) }
CallerCheckErr(c) ==
    IF c.pc = "ua_ret"
    THEN {[c EXCEPT !.pc = "idle",
                    !.out = IF c.err # "nil" THEN Append(@, "Error: " \o c.err) ELSE @]}
    ELSE {}

\* The only goroutine waits for a lock it holds itself: when no other goroutine
\* can run, the Go runtime ends the process ("all goroutines are asleep").
RuntimeDeadlock(c) ==
    IF c.pc = "s_rlock" /\ c.mutex.w
    THEN {[c EXCEPT !.pc = "fatal"]}
    ELSE {}

CustomerStep(S) ==
    /\ example \in {"mistake68", "avoid68"}
    /\ cust' \in S
    /\ UNCHANGED << benchVars, example, mainSt, layout, sel, mrg, wat, app >>

\* The steps the code takes once it runs: the entry of the example and the
\* statements of a method that has been called.
CustomerRunNext ==
    \/ CustomerStep(CustomerBegin(cust))
    \/ CustomerStep(UpdateAgeLock(cust))
    \/ CustomerStep(UpdateAgeTest(cust))
    \/ CustomerStep(StringRLock(cust))
    \/ CustomerStep(StringFormat(cust))
    \/ CustomerStep(StringRUnlock(cust))
    \/ CustomerStep(UpdateAgeUnlock(cust))
    \/ CustomerStep(CallerCheckErr(cust))

\* Besides those, a caller may call a method (or call nothing more, as mistake68
\* and avoid68 do after their one call), and the runtime may end a deadlocked
\* process.
CustomerExampleNext ==
    \/ CustomerRunNext
    \/ \E a \in (0 - MaxAge)..MaxAge : CustomerStep(CallUpdateAge(cust, a))
    \/ CustomerStep(CallString(cust))
    \/ CustomerStep(RuntimeDeadlock(cust))

CustomerExampleInit ==
    /\ example \in {"mistake68", "avoid68"}
    /\ cust = CustomerStart(IF example = "mistake68" THEN "Customer" ELSE "CustomerSafe")

----------------------------------------------------------------------------
(* #66: merge of two channels with nil channels *)

\* A merge that forwards the zero value it receives from a closed input.
recvClosedForward(m, n) == [m EXCEPT !.mpc = "send", !.v = 0]

\* A merge that leaves a closed input enabled: break without ch1 = nil.
recvClosedKeep(m, n) == [m EXCEPT !.mpc = "loop"]

\* if !open { ch1 = nil; break }: the input is disabled and the select left.
recvClosed(m, n) == [m EXCEPT !.in[n] = "nil", !.mpc = "loop"]

\* The values the two senders of avoid66 send: ch1 <- 1; ch1 <- 2 and
\* ch2 <- 3; ch2 <- 4.
senderValues == << << 1, 2 >>, << 3, 4 >> >>

\* The sender's position when it has sent k values: its next send, or close.
senderPc(n, k) == IF k < Len(senderValues[n]) THEN "send" ELSE "close"

\* The state of avoid66 on entry.  ch1 and ch2 are unbuffered: a send is pending
\* while sender n is at "send"; sent[n] counts its completed sends.  in[n] is
\* merge's own variable ch1 / ch2, buf the content of the merged channel.
MergeStart ==
    [pc |-> "start", snd |-> << "unstarted", "unstarted" >>, sent |-> << 0, 0 >>,
     closed |-> << FALSE, FALSE >>, in |-> << "open", "open" >>,
     seen |-> << FALSE, FALSE >>, mpc |-> "unstarted", v |-> 0, buf |-> << >>,
     chClosed |-> FALSE, delivered |-> << >>, out |-> << >>]

\* fmt.Println(header); ch1, ch2 := make(chan int); the two senders are started.
Avoid66Begin(m) ==
    IF m.pc = "start"
    THEN {[m EXCEPT !.pc = "callMerge", !.out = Append(@, "header"),
                    !.snd = << senderPc(1, 0), senderPc(2, 0) >>]}
    ELSE {}

\* merged := merge(ch1, ch2): ch := make(chan int, 1); go func() {...}(); return ch
Avoid66CallMerge(m) ==
    IF m.pc = "callMerge"
    THEN {[m EXCEPT !.pc = "range", !.mpc = "loop"]}
    ELSE {}

\* close(ch1) / close(ch2) by sender n.
SenderClose(m, n) ==
    IF m.snd[n] = "close"
    THEN {[m EXCEPT !.snd[n] = "done", !.closed[n] = TRUE]}
    ELSE {}

\* for ch1 != nil || ch2 != nil
MergeLoop(m) ==
    IF m.mpc = "loop"
    THEN {[m EXCEPT !.mpc = IF m.in[1] # "nil" \/ m.in[2] # "nil"
                            THEN "select" ELSE "close"]}
    ELSE {}

\* case v, open := <-chN.  A nil channel is never ready.  An open one is ready
\* when its sender waits in a send, and the receive completes that send; a closed
\* one is always ready and yields open = false.
MergeRecv(m, n) ==
    IF m.mpc = "select" /\ m.in[n] # "nil"
    THEN IF m.snd[n] = "send"
         THEN {[m EXCEPT !.mpc = "send", !.v = senderValues[n][m.sent[n] + 1],
                         !.sent[n] = @ + 1, !.snd[n] = senderPc(n, m.sent[n] + 1)]}
         ELSE IF m.closed[n]
              THEN {[recvClosed(m, n) EXCEPT !.seen[n] = TRUE]}
              ELSE {}
    ELSE {}

\* ch <- v on the merged channel, whose buffer holds one value.
MergeSend(m) ==
    IF m.mpc = "send" /\ Len(m.buf) < 1
    THEN {[m EXCEPT !.mpc = "loop", !.buf = Append(@, m.v)]}
    ELSE {}

\* close(ch)
MergeClose(m) ==
    IF m.mpc = "close"
    THEN {[m EXCEPT !.mpc = "done", !.chClosed = TRUE]}
    ELSE {}

\* for v := range merged { fmt.Printf("Merged value: %d\n", v) }
RangeRecv(m) ==
    IF m.pc = "range" /\ m.buf # << >>
    THEN {[m EXCEPT !.buf = Tail(@), !.delivered = Append(@, Head(m.buf)),
                    !.out = Append(@, "Merged value: " \o ToString(Head(m.buf)))]}
    ELSE {}

\* The range loop ends when the merged channel is closed and drained.
RangeEnd(m) ==
    IF m.pc = "range" /\ m.buf = << >> /\ m.chClosed
    THEN {[m EXCEPT !.pc = "done"]}
    ELSE {}

MergeStep(S) ==
    /\ example = "avoid66"
    /\ mrg' \in S
    /\ UNCHANGED << benchVars, example, mainSt, layout, sel, cust, wat, app >>

Avoid66Next ==
    \/ MergeStep(Avoid66Begin(mrg))
    \/ MergeStep(Avoid66CallMerge(mrg))
    \/ MergeStep(RangeRecv(mrg))
    \/ MergeStep(RangeEnd(mrg))

SenderNext(n) == MergeStep(SenderClose(mrg, n))

MergeGoroutineNext ==
    \/ MergeStep(MergeLoop(mrg))
    \/ \E n \in 1..2 : MergeStep(MergeRecv(mrg, n))
    \/ MergeStep(MergeSend(mrg))
    \/ MergeStep(MergeClose(mrg))

MergeExampleNext ==
    \/ Avoid66Next
    \/ \E n \in 1..2 : SenderNext(n)
    \/ MergeGoroutineNext

MergeExampleInit ==
    /\ example = "avoid66"
    /\ mrg = MergeStart

----------------------------------------------------------------------------
(* #62: the watcher goroutine *)

\* A close() that leaves the done channel as it is.
closeDoneNoop(d) == d

\* close(w.done)
closeDone(d) == "closed"

\* The state of mistake62 / avoid62 on entry: no watcher yet.
WatcherStart(variant) ==
    [pc |-> "start", variant |-> variant, done |-> "none", wpc |-> "unstarted",
     out |-> << >>]

\* newWatcher(): w := &watcher{done: make(chan struct{})}; go w.watch(); return w
newWatcher(w) ==
    IF w.pc = "start"
    THEN {[w EXCEPT !.pc = "print", !.done = "open", !.wpc = "select"]}
    ELSE {}

\* fmt.Println("Watcher created ..."); avoid62 has its deferred close still to run.
WatcherPrintln(w) ==
    IF w.pc = "print"
    THEN {IF w.variant = "avoid62"
          THEN [w EXCEPT !.pc = "defer",
                         !.out = Append(@, "Watcher created with proper cleanup")]
          ELSE [w EXCEPT !.pc = "returned",
                         !.out = Append(@, "Watcher created without proper cleanup - goroutine will leak")]}
    ELSE {}

\* defer w.close() runs as avoid62 returns.
WatcherClose(w) ==
    IF w.pc = "defer"
    THEN {[w EXCEPT !.pc = "returned", !.done = closeDone(@)]}
    ELSE {}

\* watch(): select { case <-w.done: ... }.  Nothing is ever sent on done, so the
\* receive is ready only once the channel is closed.
watch(w) ==
    IF w.wpc = "select" /\ w.done = "closed"
    THEN {[w EXCEPT !.wpc = "stopped", !.out = Append(@, "Watcher stopped")]}
    ELSE {}

WatcherStep(S) ==
    /\ example \in {"mistake62", "avoid62"}
    /\ wat' \in S
    /\ UNCHANGED << benchVars, example, mainSt, layout, sel, cust, mrg, app >>

WatcherCallerNext ==
    \/ WatcherStep(newWatcher(wat))
    \/ WatcherStep(WatcherPrintln(wat))
    \/ WatcherStep(WatcherClose(wat))

WatchNext == WatcherStep(watch(wat))

WatcherExampleNext == WatcherCallerNext \/ WatchNext

WatcherExampleInit ==
    /\ example \in {"mistake62", "avoid62"}
    /\ wat = WatcherStart(example)

----------------------------------------------------------------------------
(* #69: appending to a shared slice under a mutex *)

\* The name of the n-th goroutine avoid69 starts.
appender(n) == IF n = 1 THEN "g1" ELSE "g2"

\* The value the n-th goroutine appends: append(s, 1) and append(s, 2).
appendValue(n) == n

\* The state of avoid69 on entry: var s []int; var mu sync.Mutex.  mu is "free"
\* or names its holder.  acc is the log of the accesses to s: who, read or write,
\* whether mu was held, and (for the caller) the goroutines not yet started,
\* which the go statement orders after the access.
AppendStart ==
    [pc |-> "start", s |-> << >>, mu |-> "free",
     g |-> << "unstarted", "unstarted" >>, tmp |-> << << >>, << >> >>,
     acc |-> {}, out |-> << >>]

\* One access to s.
SliceAccess(a, who, k) ==
    [g |-> who, f |-> "s", k |-> k, held |-> a.mu = who,
     ord |-> IF who = "main" THEN {appender(n) : n \in {m \in 1..2 : a.g[m] = "unstarted"}}
             ELSE {}]

\* Two accesses made with mu held are ordered by the mutex; otherwise the rule
\* of Race decides.
SliceRace(x, y) == Race(x, y) /\ ~(x.held /\ y.held)

\* fmt.Println(header); var s []int; var mu sync.Mutex
Avoid69Begin(a) ==
    IF a.pc = "start"
    THEN {[a EXCEPT !.pc = "go1", !.out = Append(@, "header")]}
    ELSE {}

\* go func() {...}(): the n-th goroutine is started, at its mu.Lock().
Avoid69Go(a, n) ==
    IF a.pc = (IF n = 1 THEN "go1" ELSE "go2")
    THEN {[a EXCEPT !.pc = IF n = 1 THEN "go2" ELSE "print", !.g[n] = "lock"]}
    ELSE {}

\* fmt.Printf("Slice length: %d (safe)\n", len(s)): the caller reads s and returns.
Avoid69Printf(a) ==
    IF a.pc = "print"
    THEN {[a EXCEPT !.pc = "returned",
                    !.acc = @ \cup {SliceAccess(a, "main", "r")},
                    !.out = Append(@, "Slice length: " \o ToString(Len(a.s))
                                      \o " (safe)")]}
    ELSE {}

\* mu.Lock() in the n-th goroutine.
AppenderLock(a, n) ==
    IF a.g[n] = "lock" /\ a.mu = "free"
    THEN {[a EXCEPT !.g[n] = "read", !.mu = appender(n)]}
    ELSE {}

\* append(s, v): s is read and the longer slice built.
AppenderRead(a, n) ==
    IF a.g[n] = "read"
    THEN {[a EXCEPT !.g[n] = "write", !.tmp[n] = Append(a.s, appendValue(n)),
                    !.acc = @ \cup {SliceAccess(a, appender(n), "r")}]}
    ELSE {}

\* s = ...: the result of append is stored in s.
AppenderWrite(a, n) ==
    IF a.g[n] = "write"
    THEN {[a EXCEPT !.g[n] = "unlock", !.s = a.tmp[n],
                    !.acc = @ \cup {SliceAccess(a, appender(n), "w")}]}
    ELSE {}

\* mu.Unlock(), and the goroutine ends.
AppenderUnlock(a, n) ==
    IF a.g[n] = "unlock"
    THEN {[a EXCEPT !.g[n] = "done", !.mu = "free"]}
    ELSE {}

AppendStep(S) ==
    /\ example = "avoid69"
    /\ app' \in S
    /\ UNCHANGED << benchVars, example, mainSt, layout, sel, cust, mrg, wat >>

Avoid69Next ==
    \/ AppendStep(Avoid69Begin(app))
    \/ \E n \in 1..2 : AppendStep(Avoid69Go(app, n))
    \/ AppendStep(Avoid69Printf(app))

AppenderNext(n) ==
    \/ AppendStep(AppenderLock(app, n))
    \/ AppendStep(AppenderRead(app, n))
    \/ AppendStep(AppenderWrite(app, n))
    \/ AppendStep(AppenderUnlock(app, n))

AppendExampleNext ==
    \/ Avoid69Next
    \/ \E n \in 1..2 : AppenderNext(n)

AppendExampleInit ==
    /\ example = "avoid69"
    /\ app = AppendStart

----------------------------------------------------------------------------
(* The examples together: one of them runs, the others stay idle *)

ExampleInit ==
    /\ BenchIdle
    /\ layout = Idle
    /\ \/ MainExampleInit /\ sel = Idle /\ cust = Idle /\ mrg = Idle /\ wat = Idle
          /\ app = Idle
       \/ SelectExampleInit /\ mainSt = Idle /\ cust = Idle /\ mrg = Idle /\ wat = Idle
          /\ app = Idle
       \/ CustomerExampleInit /\ mainSt = Idle /\ sel = Idle /\ mrg = Idle /\ wat = Idle
          /\ app = Idle
       \/ MergeExampleInit /\ mainSt = Idle /\ sel = Idle /\ cust = Idle /\ wat = Idle
          /\ app = Idle
       \/ WatcherExampleInit /\ mainSt = Idle /\ sel = Idle /\ cust = Idle /\ mrg = Idle
          /\ app = Idle
       \/ AppendExampleInit /\ mainSt = Idle /\ sel = Idle /\ cust = Idle /\ mrg = Idle
          /\ wat = Idle

ExampleNext ==
    \/ MainExampleNext
    \/ SelectExampleNext
    \/ CustomerExampleNext
    \/ MergeExampleNext
    \/ WatcherExampleNext
    \/ AppendExampleNext

ExampleFairness ==
    /\ WF_vars(MainGoroutineNext)
    /\ \A n \in 1..Len(mistake63Slice) : WF_vars(Mistake63GoroutineNext(n))
    /\ WF_vars(SelectConsumerNext)
    /\ WF_vars(SelectProducerNext)
    /\ WF_vars(CustomerRunNext)
    /\ WF_vars(Avoid66Next)
    /\ \A n \in 1..2 : WF_vars(SenderNext(n))
    /\ WF_vars(MergeGoroutineNext)
    /\ WF_vars(WatcherCallerNext)
    /\ WF_vars(WatchNext)
    /\ WF_vars(Avoid69Next)
    /\ \A n \in 1..2 : WF_vars(AppenderNext(n))

ExampleSpec == ExampleInit /\ [][ExampleNext]_vars

FairExampleSpec == ExampleSpec /\ ExampleFairness

----------------------------------------------------------------------------
(* Properties of the entry point and of the examples *)

InMain == example = "main"
\* The lines main itself prints, and the lines the goroutines of mistake63 print.
MainLines == SelectSeq(mainSt.out, LAMBDA l : l \in {"header", ""})
GoroutineLines == SelectSeq(mainSt.out, LAMBDA l : l \notin {"header", ""})

\* C11 as claimed: main runs one benchmark driver (SimpleBenchmark or
\* CountBenchmark) to completion and exits normally, and every goroutine started
\* during the run has finished before main returns.
C11_MainRunsBenchmark ==
    (InMain /\ mainSt.pc = "exited") =>
       /\ mainSt.exit = 0
       /\ \E d \in {"SimpleBenchmark", "CountBenchmark"} : mainSt.ran = << d >>
       /\ \A n \in DOMAIN mainSt.g : mainSt.g[n].st \in {"unstarted", "done"}

\* C11 as amended: main runs the one example mistake63 to completion and exits
\* with status 0 after printing its header and a blank line; mistake63 has started
\* three goroutines, each of which prints at most once an element of s (that of
\* its own iteration or, with a shared loop variable, of a later one), and main
\* does not wait for them.
C11_MainRunsMistake63 ==
    InMain =>
       /\ \A n \in DOMAIN mainSt.g : mainSt.g[n].st = "unstarted" <=> n > mainSt.k
       /\ Len(GoroutineLines) = Cardinality({n \in DOMAIN mainSt.g : mainSt.g[n].st = "done"})
       /\ \A l \in 1..Len(GoroutineLines) : GoroutineLines[l] \in {"1", "2", "3"}
       /\ \A n \in DOMAIN mainSt.g : mainSt.g[n].st \in {"loaded", "done"} =>
             /\ mainSt.g[n].arg \in {mainSt.s[it] : it \in n..Len(mainSt.s)}
             /\ mainSt.loopvar = "perIteration" => mainSt.g[n].arg = mainSt.s[n]
       /\ mainSt.loopvar = "perIteration" =>
             \A a, b \in 1..Len(GoroutineLines) :
                GoroutineLines[a] = GoroutineLines[b] => a = b
       /\ mainSt.pc = "exited" =>
             /\ mainSt.exit = 0
             /\ mainSt.ran = << "mistake63" >>
             /\ MainLines = << "header", "" >>
             /\ \A n \in DOMAIN mainSt.g : mainSt.g[n].st \in {"ready", "loaded", "done"}

\* main has returned while a goroutine of mistake63 has not printed yet, and
\* another one has.
C11_Witness ==
    /\ InMain
    /\ mainSt.pc = "exited"
    /\ \E n \in DOMAIN mainSt.g : mainSt.g[n].st \in {"ready", "loaded"}
    /\ \E n \in DOMAIN mainSt.g : mainSt.g[n].st = "done"

\* The line a claim expects for two durations: a tie when they differ by at most
\* noise, otherwise the variant with the smaller duration, with slower / faster.
ExpectedCompare(nameA, durA, nameB, durB, noise) ==
    IF durA - durB <= noise /\ durB - durA <= noise
    THEN [tag |-> "similar"]
    ELSE IF durA < durB
         THEN [tag |-> "faster", who |-> nameA, than |-> nameB, num |-> durB, den |-> durA]
         ELSE [tag |-> "faster", who |-> nameB, than |-> nameA, num |-> durA, den |-> durB]

\* C12 as claimed: the tie is reported whenever the two durations are within
\* measurement noise of each other, here one clock tick; otherwise the variant
\* with the smaller duration is reported as faster, with slower / faster.
C12_TieWithinNoise ==
    /\ (driver = "SimpleBenchmark" /\ pc = "verify") =>
          LastLine = ExpectedCompare("sumFoo", durationFoo, "sumBar", durationBar, 1)
    /\ (driver = "CountBenchmark" /\ pc = "verify") =>
          LastLine = ExpectedCompare("FastResult", durationFast, "Result", durationResult, 1)

\* C12 as amended: the tie is reported exactly when the two durations are equal;
\* otherwise the variant with the smaller duration is reported as faster, with
\* multiplier slower duration / faster duration.
C12_TieIffEqual ==
    /\ (driver = "SimpleBenchmark" /\ pc = "verify") =>
          LastLine = ExpectedCompare("sumFoo", durationFoo, "sumBar", durationBar, 0)
    /\ (driver = "CountBenchmark" /\ pc = "verify") =>
          LastLine = ExpectedCompare("FastResult", durationFast, "Result", durationResult, 0)

\* CountBenchmark has reported the padded variant as faster by a finite ratio,
\* on durations that differ by one tick only.
C12_Witness ==
    /\ driver = "CountBenchmark"
    /\ pc = "verify"
    /\ durationFast >= 1
    /\ durationResult = durationFast + 1
    /\ LastLine.tag = "faster"
    /\ LastLine.who = "FastResult"

\* C13: for every 8-byte-aligned base address of a FastResult, with 64-byte
\* cache lines, sumA and sumB lie in different cache lines, sumB 64 bytes after
\* sumA; in the unpadded Result they are adjacent, at offsets 0 and 8.
C13_PaddedFieldsInDistinctLines ==
    (example = "layout" /\ layout.pc = "placed") =>
       /\ layout.addrA = layout.base
       /\ IF layout.type = "FastResult"
          THEN /\ layout.addrB = layout.addrA + 64
               /\ CacheLineOf(layout.addrA, 64) # CacheLineOf(layout.addrB, 64)
          ELSE layout.addrB = layout.addrA + 8

\* A FastResult has been placed with sumA at the start of a cache line, the base
\* address at which less padding would leave sumB in the same line.
C13_Witness ==
    /\ example = "layout"
    /\ layout.pc = "placed"
    /\ layout.type = "FastResult"
    /\ layout.base > 0
    /\ layout.base % 64 = 0

InSelect == example \in {"mistake64", "avoid64"}

\* The messages the producer sends, in the order it sends them: 0..9.
AllMessages == [k \in 1..10 |-> k - 1]

IsPrefix(a, b) == Len(a) <= Len(b) /\ \A k \in 1..Len(a) : a[k] = b[k]

\* C14: in mistake64 an execution is reachable in which the function returns on
\* the disconnect case having processed fewer than 10 messages.
C14_EarlyReturnReachable ==
    (example = "mistake64" /\ sel.pc = "start") =>
       \E s \in SelectReach({sel}) : s.pc = "returned" /\ s.count < 10

\* C15: in avoid64 the consumer receives the messages 0..9 in increasing order,
\* each once; it has all ten when it prints "disconnection, return", and then
\* the producer has terminated too; and every fair execution gets there.
C15_AllMessagesThenReturn ==
    /\ [](example = "avoid64" =>
            /\ IsPrefix(sel.received, AllMessages)
            /\ sel.pc = "returned" =>
                  /\ sel.received = AllMessages
                  /\ sel.prod = "done"
                  /\ sel.out[Len(sel.out)] = "disconnection, return"
                  /\ \A k \in 1..10 : sel.out[k + 1] = ToString(k - 1))
    /\ (example = "avoid64") ~> (sel.pc = "returned")

\* avoid64 has returned after the inner select took its default case.
C15_Witness ==
    /\ example = "avoid64"
    /\ sel.pc = "returned"
    /\ Len(sel.received) = 10

\* UpdateAge was called with a negative age and has got past its test.
NegativeUpdatePastTest ==
    /\ cust.op = "UpdateAge"
    /\ cust.arg < 0
    /\ cust.pc \notin {"ua_lock", "ua_test"}

\* C16: Customer.UpdateAge called with a negative age never returns: holding the
\* write lock it formats the customer, which calls String(), which waits at
\* RLock of the same mutex for ever (or until the runtime ends the process).
C16_NegativeUpdateDeadlocks ==
    (example = "mistake68" /\ NegativeUpdatePastTest) =>
       /\ cust.pc \in {"s_rlock", "fatal"}
       /\ cust.from = "errorf"
       /\ cust.mutex.w
       /\ StringRLock(cust) = {}
       /\ cust.err = "nil"
       /\ cust.age = cust.ageAtCall

\* mistake68's goroutine waits at String's RLock while it holds the write lock.
C16_Witness ==
    /\ example = "mistake68"
    /\ cust.pc = "s_rlock"
    /\ cust.from = "errorf"
    /\ cust.arg < 0
    /\ cust.mutex.w

\* C17: CustomerSafe.UpdateAge with a negative age returns an error, leaves age
\* unchanged and has released the mutex on return, so that a following String
\* or UpdateAge call acquires it; with a non-negative age it sets age to that
\* value, returns nil and releases the mutex.
C17_SafeUpdateReturns ==
    example = "avoid68" =>
       /\ cust.pc # "fatal"
       /\ cust.pc \in {"idle", "ua_lock", "ua_ret"} => (~cust.mutex.w /\ cust.mutex.r = 0)
       /\ (cust.pc = "s_rlock" /\ cust.from = "caller") => StringRLock(cust) # {}
       /\ cust.pc = "ua_lock" => UpdateAgeLock(cust) # {}
       /\ (cust.pc \in {"ua_ret", "idle"} /\ cust.op = "UpdateAge") =>
             IF cust.arg < 0
             THEN /\ cust.err = "age should be positive for customer id 123"
                  /\ cust.age = cust.ageAtCall
             ELSE /\ cust.err = "nil"
                  /\ cust.age = cust.arg

\* avoid68: UpdateAge(-1) has returned its error, which the caller has printed,
\* and a following call has acquired the mutex.
C17_Witness ==
    /\ example = "avoid68"
    /\ cust.ncalls = 2
    /\ cust.pc \in {"ua_test", "s_fmt"}
    /\ Len(cust.out) = 2
    /\ cust.out[2] = "Error: age should be positive for customer id 123"
    /\ cust.age = 25

\* The values of sequence q that come from input n, in the order of q.
FromInput(q, n) ==
    SelectSeq(q, LAMBDA x : \E k \in 1..Len(senderValues[n]) : senderValues[n][k] = x)

\* The values the merge goroutine has taken and the consumer may still get.
InFlight == (IF mrg.mpc = "send" THEN << mrg.v >> ELSE << >>)

\* Everything received from the inputs so far, oldest first.
Forwarded == mrg.delivered \o mrg.buf \o InFlight

\* C18: every value sent on ch1 or ch2 is delivered on the merged channel once,
\* values of one input keep their order, no other value is delivered, and the
\* merged channel is closed only after both inputs are closed and all their
\* values forwarded.
C18_MergeDelivers ==
    example = "avoid66" =>
       /\ \A n \in 1..2 :
             FromInput(Forwarded, n) = SubSeq(senderValues[n], 1, mrg.sent[n])
       /\ Len(Forwarded) = mrg.sent[1] + mrg.sent[2]
       /\ mrg.chClosed =>
             /\ mrg.closed[1] /\ mrg.closed[2]
             /\ \A n \in 1..2 : mrg.sent[n] = Len(senderValues[n])
             /\ InFlight = << >>
       /\ mrg.pc = "done" =>
             /\ \A n \in 1..2 : FromInput(mrg.delivered, n) = senderValues[n]
             /\ Len(mrg.delivered) = Len(senderValues[1]) + Len(senderValues[2])

\* avoid66's range loop has ended with a value of ch2 delivered before the
\* last value of ch1.
C18_Witness ==
    /\ example = "avoid66"
    /\ mrg.pc = "done"
    /\ mrg.delivered = << 1, 3, 2, 4 >>

\* C19: under fair scheduling the merge goroutine terminates and closes the
\* merged channel and avoid66's range loop ends; an input observed closed is
\* nil from then on and its select case is not taken again.
C19_MergeTerminates ==
    /\ (example = "avoid66") ~> (mrg.pc = "done" /\ mrg.mpc = "done" /\ mrg.chClosed)
    /\ [](example = "avoid66" => \A n \in 1..2 : mrg.seen[n] => mrg.in[n] = "nil")
    /\ [][example = "avoid66" =>
             \A n \in 1..2 : mrg.seen[n] =>
                  (mrg'.in[n] = "nil" /\ mrg' \notin MergeRecv(mrg, n))]_vars

\* Everything has terminated, both inputs observed closed and disabled.
C19_Witness ==
    /\ example = "avoid66"
    /\ mrg.pc = "done"
    /\ mrg.mpc = "done"
    /\ mrg.seen = << TRUE, TRUE >>
    /\ mrg.in = << "nil", "nil" >>

\* C20: the watch goroutine terminates if and only if close() is called: in
\* mistake62 it waits on the done channel for ever; in avoid62, once close()
\* has run, it prints "Watcher stopped" and returns.
C20_WatcherStopsIffClosed ==
    /\ [](example = "mistake62" => wat.wpc \in {"unstarted", "select"} /\ wat.done # "closed")
    /\ [](example = "avoid62" =>
            /\ wat.wpc = "stopped" =>
                  /\ wat.done = "closed"
                  /\ wat.out = << "Watcher created with proper cleanup", "Watcher stopped" >>
            /\ wat.pc = "returned" => wat.done = "closed")
    /\ (example = "avoid62") ~> (wat.pc = "returned")
    /\ (example = "avoid62" /\ wat.done = "closed")
          ~> (example = "avoid62" /\ wat.wpc = "stopped")
    /\ [][(example = "avoid62" /\ wat.wpc = "stopped") => wat'.wpc = "stopped"]_vars

\* avoid62 has returned and its watcher has stopped.
C20_Witness ==
    /\ example = "avoid62"
    /\ wat.pc = "returned"
    /\ wat.wpc = "stopped"
    /\ wat.out[Len(wat.out)] = "Watcher stopped"

\* C21: in avoid69 the shared slice s is free of data races: every read and
\* every write of s, in the two appending goroutines and in the launching
\* function, happens while mu is held, and no two conflicting accesses to s
\* are concurrent.
C21_SliceRaceFree ==
    example = "avoid69" =>
       /\ \A x \in app.acc : x.held
       /\ \A x, y \in app.acc : ~SliceRace(x, y)

====
